---------------------------- MODULE Spec2Model ----------------------------
(***************************************************************************)
(* A model of xray's Machine (machine.go): one orchestrator goroutine that  *)
(* runs NewMachine, Start and Wait, a pool of inputConsumer goroutines and  *)
(* the outputConsumer goroutine, communicating over two unbuffered          *)
(* channels (input, output) and a sync.WaitGroup (wait).                    *)
(*                                                                         *)
(* An unbuffered channel holds no value: a send and a receive happen as one *)
(* joint step of the blocked sender and the blocked receiver.  A nil-able   *)
(* Go value (a pointer, an interface{}) is a sequence of length 0 (nil) or  *)
(* 1 (the value).  A float64 is a record [kind, num, den]: a finite         *)
(* quotient num/den, or the IEEE-754 result of a division by zero.          *)
(* The uint64 counters stay far below 2^64 within the bounds, so their      *)
(* arithmetic is plain integer arithmetic.                                  *)
(***************************************************************************)
EXTENDS Integers, Sequences, FiniteSets

\* ---------------------------------------------------------------- bounds
\* Longest wordlist, in lines.
MaxLines == 3
\* Largest worker count a caller asks for (the smallest is -1).
MaxConsumers == 2

\* The values of runtime.NumCPU() on the hosts considered.
NumCPUs == {1}

\* The <<Results, Inputs>> counts a prior session snapshot carries.
PriorCounts == {<<0, 0>>, <<1, 5>>}

\* The time that passes between two readings of the clock.
Ticks == {0, 1}

\* The words a wordlist line is drawn from.
LineVals == {"admin", "root"}

\* The wordlists: every sequence of at most MaxLines words.
Files == UNION {[1..len -> LineVals] : len \in 0..MaxLines}

\* The goroutines Start can launch as input consumers.
MaxOf(S) == CHOOSE x \in S : \A y \in S : y <= x
Workers == 1..MaxOf({MaxConsumers} \cup {2 * c : c \in NumCPUs})

\* The goroutines Start can launch as output consumers.
Collectors == {"c1", "c2"}

VARIABLES
    \* inputs of the run
    file,          \* the lines of the wordlist named by m.filename
    session,       \* the *Session given to NewMachine: [Stats |-> <<>> or <<s>>]
    reqConsumers,  \* the consumers argument of NewMachine
    numCPU,        \* runtime.NumCPU()
    \* Machine fields
    Stats,         \* m.Stats
    consumers,     \* m.consumers
    wait,          \* the counter of m.wait
    \* the orchestrator (caller of Start, then Wait)
    pc,            \* its position
    i,             \* Start's loop counter over the consumers
    lines,         \* what the open line reader has still to deliver
    n,             \* Start's count of lines still to skip
    line,          \* <<job>> while AddInput is blocked sending it on m.input
    err,           \* Start's return value: "none" before it returns, "nil", "IOError"
    clock,         \* the last reading of time.Now()
    \* the input consumers
    wpc,           \* position of each
    inp,           \* the job each holds (loop variable in)
    res,           \* the result each holds
    \* the output consumers
    cpc,           \* position of each
    cres,          \* the result each holds
    \* history of the run
    runCount,      \* per line number, the calls of run_handler on that line
    submitted,     \* line numbers handed over m.input, in hand-off order
    sent,          \* results handed over m.output, in hand-off order
    handled,       \* results res_handler was called with, in call order
    returned,      \* number of res_handler calls that have returned
    updates        \* number of UpdateStats calls

vars == <<file, session, reqConsumers, numCPU, Stats, consumers, wait, pc, i,
          lines, n, line, err, clock, wpc, inp, res, cpc, cres, runCount,
          submitted, sent, handled, returned, updates>>

mainVars == <<pc, i, lines, n, line, err>>
inputVars == <<file, session, reqConsumers, numCPU, consumers>>
histVars == <<runCount, submitted, sent, handled, returned, updates>>

\* ---------------------------------------------------------------- values
\* float64: a finite quotient.
Fin(a, b) == [kind |-> "fin", num |-> a, den |-> b]

\* float64 division a / b of two non-negative integers converted to float64.
FloatDiv(a, b) ==
    IF b # 0 THEN Fin(a, b)
    ELSE IF a = 0 THEN [kind |-> "NaN", num |-> 0, den |-> 0]
    ELSE [kind |-> "+Inf", num |-> 0, den |-> 0]

\* Statistics{}: the zero value.
ZeroStatistics ==
    [Start |-> 0, Stop |-> 0, Total |-> 0, Inputs |-> 0, Eps |-> Fin(0, 1),
     Execs |-> 0, Results |-> 0, Progress |-> Fin(0, 1)]

\* The snapshots a session can carry: nil, or the statistics of a prior run.
Sessions ==
    {[Stats |-> <<>>]} \cup
    {[Stats |-> <<[ZeroStatistics EXCEPT !.Execs = k, !.Results = c[1], !.Inputs = c[2]]>>] :
        k \in 0..(MaxLines + 1), c \in PriorCounts}

\* The processing function of the run: the line itself when it is "root".
run_handler(l) == IF l = "root" THEN <<l>> ELSE <<>>

\* LineReader(filename, 0) on success: the lines of the file in order, each
\* with its line number.
LineReader(f) == [k \in 1..Len(f) |-> [idx |-> k, text |-> f[k]]]

\* ---------------------------------------------------------------- NewMachine
\* NewMachine's worker count with "consumers < 0" for "consumers <= 0".
NewMachine_workers_lt(c, cpus) == IF c < 0 THEN cpus * 2 ELSE c

\* The worker count NewMachine chooses.
NewMachine_workers(c, cpus) == IF c <= 0 THEN cpus * 2 ELSE c

\* The statistics NewMachine starts from.
NewMachine_stats(s) ==
    IF s.Stats # <<>> /\ s.Stats[1].Execs > 0 THEN s.Stats[1] ELSE ZeroStatistics

Init ==
    /\ file \in Files
    /\ session \in Sessions
    /\ reqConsumers \in (-1)..MaxConsumers
    /\ numCPU \in NumCPUs
    /\ Stats = NewMachine_stats(session)
    /\ consumers = NewMachine_workers(reqConsumers, numCPU)
    /\ wait = 0
    /\ pc = "Start"
    /\ i = 0
    /\ lines = <<>>
    /\ n = 0
    /\ line = <<>>
    /\ err = "none"
    /\ clock = 0
    /\ wpc = [w \in Workers |-> "off"]
    /\ inp = [w \in Workers |-> <<>>]
    /\ res = [w \in Workers |-> <<>>]
    /\ cpc = [c \in Collectors |-> "off"]
    /\ cres = [c \in Collectors |-> <<>>]
    /\ runCount = [k \in 1..Len(file) |-> 0]
    /\ submitted = <<>>
    /\ sent = <<>>
    /\ handled = <<>>
    /\ returned = 0
    /\ updates = 0

\* ---------------------------------------------------------------- Start
\* The launch loop with "i <= m.consumers" for "i < m.consumers".
Start_goInputConsumer_le ==
    /\ pc = "Start"
    /\ i <= consumers
    /\ wpc' = [w \in Workers |-> IF w = i + 1 THEN "recv" ELSE wpc[w]]
    /\ i' = i + 1
    /\ UNCHANGED <<inputVars, Stats, wait, pc, lines, n, line, err, clock,
                   inp, res, cpc, cres, histVars>>

\* for i < m.consumers { go m.inputConsumer() }
Start_goInputConsumer ==
    /\ pc = "Start"
    /\ i < consumers
    /\ wpc' = [wpc EXCEPT ![i + 1] = "recv"]
    /\ i' = i + 1
    /\ UNCHANGED <<inputVars, Stats, wait, pc, lines, n, line, err, clock,
                   inp, res, cpc, cres, histVars>>

\* Start launching the output consumer twice.
Start_collectors_two == {"c1", "c2"}

\* The output consumers "go m.outputConsumer()" launches.
Start_collectors == {"c1"}

\* go m.outputConsumer()
Start_goOutputConsumer ==
    /\ pc = "Start"
    /\ i >= consumers
    /\ cpc' = [c \in Collectors |-> IF c \in Start_collectors THEN "recv" ELSE cpc[c]]
    /\ pc' = "count_open"
    /\ UNCHANGED <<inputVars, Stats, wait, i, lines, n, line, err, clock,
                   wpc, inp, res, cres, histVars>>

\* The counting pass without "m.Stats.Inputs = 0".
Start_countOpen_noReset ==
    /\ pc = "count_open"
    /\ lines' = LineReader(file)
    /\ pc' = "count"
    /\ UNCHANGED <<inputVars, Stats, wait, i, n, line, err, clock,
                   wpc, inp, res, cpc, cres, histVars>>

\* m.Stats.Inputs = 0; LineReader succeeds.
Start_countOpen ==
    /\ pc = "count_open"
    /\ Stats' = [Stats EXCEPT !.Inputs = 0]
    /\ lines' = LineReader(file)
    /\ pc' = "count"
    /\ UNCHANGED <<inputVars, wait, i, n, line, err, clock,
                   wpc, inp, res, cpc, cres, histVars>>

\* The failing first open with "m.Stats = Statistics{}" for "m.Stats.Inputs = 0".
Start_countOpenErr_resetStats ==
    /\ pc = "count_open"
    /\ Stats' = ZeroStatistics
    /\ err' = "IOError"
    /\ pc' = "failed"
    /\ UNCHANGED <<inputVars, wait, i, lines, n, line, clock,
                   wpc, inp, res, cpc, cres, histVars>>

\* m.Stats.Inputs = 0; LineReader fails: return err.
Start_countOpenErr ==
    /\ pc = "count_open"
    /\ Stats' = [Stats EXCEPT !.Inputs = 0]
    /\ err' = "IOError"
    /\ pc' = "failed"
    /\ UNCHANGED <<inputVars, wait, i, lines, n, line, clock,
                   wpc, inp, res, cpc, cres, histVars>>

\* for range lines { m.Stats.Inputs++ }
Start_countLine ==
    /\ pc = "count"
    /\ lines # <<>>
    /\ lines' = Tail(lines)
    /\ Stats' = [Stats EXCEPT !.Inputs = @ + 1]
    /\ UNCHANGED <<inputVars, wait, pc, i, n, line, err, clock,
                   wpc, inp, res, cpc, cres, histVars>>

\* Start without the second LineReader call: the exhausted reader is used again.
Start_reopen_exhausted ==
    /\ pc = "count"
    /\ lines = <<>>
    /\ IF Stats.Execs > 0
         THEN /\ n' = Stats.Execs
              /\ pc' = "skip"
              /\ UNCHANGED <<Stats, clock>>
         ELSE /\ clock' \in {clock + d : d \in Ticks}
              /\ Stats' = [Stats EXCEPT !.Start = clock']
              /\ pc' = "pump"
              /\ UNCHANGED n
    /\ UNCHANGED <<inputVars, wait, i, lines, line, err,
                   wpc, inp, res, cpc, cres, histVars>>

\* The second LineReader succeeds; then the branch on m.Stats.Execs > 0.
Start_reopen ==
    /\ pc = "count"
    /\ lines = <<>>
    /\ lines' = LineReader(file)
    /\ IF Stats.Execs > 0
         THEN /\ n' = Stats.Execs
              /\ pc' = "skip"
              /\ UNCHANGED <<Stats, clock>>
         ELSE /\ clock' \in {clock + d : d \in Ticks}
              /\ Stats' = [Stats EXCEPT !.Start = clock']
              /\ pc' = "pump"
              /\ UNCHANGED n
    /\ UNCHANGED <<inputVars, wait, i, line, err,
                   wpc, inp, res, cpc, cres, histVars>>

\* The second LineReader fails: return err.
Start_reopenErr ==
    /\ pc = "count"
    /\ lines = <<>>
    /\ err' = "IOError"
    /\ pc' = "failed"
    /\ UNCHANGED <<inputVars, Stats, wait, i, lines, n, line, clock,
                   wpc, inp, res, cpc, cres, histVars>>

\* The skip loop leaving at n == 1 without discarding that line.
Start_skipLine_oneShort ==
    /\ pc = "skip"
    /\ lines # <<>>
    /\ lines' = IF n = 1 THEN lines ELSE Tail(lines)
    /\ n' = n - 1
    /\ pc' = IF n' = 0 THEN "pump" ELSE "skip"
    /\ UNCHANGED <<inputVars, Stats, wait, i, line, err, clock,
                   wpc, inp, res, cpc, cres, histVars>>

\* The skip loop testing n == 0 before the decrement.
Start_skipLine_testFirst ==
    /\ pc = "skip"
    /\ lines # <<>>
    /\ lines' = Tail(lines)
    /\ n' = n - 1
    /\ pc' = IF n = 0 THEN "pump" ELSE "skip"
    /\ UNCHANGED <<inputVars, Stats, wait, i, line, err, clock,
                   wpc, inp, res, cpc, cres, histVars>>

\* for range lines { n--; if n == 0 { break } }: one iteration.
Start_skipLine ==
    /\ pc = "skip"
    /\ lines # <<>>
    /\ lines' = Tail(lines)
    /\ n' = n - 1
    /\ pc' = IF n' = 0 THEN "pump" ELSE "skip"
    /\ UNCHANGED <<inputVars, Stats, wait, i, line, err, clock,
                   wpc, inp, res, cpc, cres, histVars>>

\* The skip loop falling back to the start of the source when the reader is
\* exhausted before n reaches 0.
Start_skipEnd_rewind ==
    /\ pc = "skip"
    /\ lines = <<>>
    /\ lines' = LineReader(file)
    /\ pc' = "pump"
    /\ UNCHANGED <<inputVars, Stats, wait, i, n, line, err, clock,
                   wpc, inp, res, cpc, cres, histVars>>

\* The skip loop ends because the reader is exhausted.
Start_skipEnd ==
    /\ pc = "skip"
    /\ lines = <<>>
    /\ pc' = "pump"
    /\ UNCHANGED <<inputVars, Stats, wait, i, lines, n, line, err, clock,
                   wpc, inp, res, cpc, cres, histVars>>

\* The pump loop taking the lines from the end of the reader.
AddInput_last ==
    /\ pc = "pump"
    /\ lines # <<>>
    /\ line' = <<lines[Len(lines)]>>
    /\ lines' = SubSeq(lines, 1, Len(lines) - 1)
    /\ wait' = wait + 1
    /\ pc' = "send"
    /\ UNCHANGED <<inputVars, Stats, i, n, err, clock,
                   wpc, inp, res, cpc, cres, histVars>>

\* The pump loop counting the inputs while it submits them.
AddInput_counting ==
    /\ pc = "pump"
    /\ lines # <<>>
    /\ line' = <<Head(lines)>>
    /\ lines' = Tail(lines)
    /\ wait' = wait + 1
    /\ Stats' = [Stats EXCEPT !.Inputs = @ + 1]
    /\ pc' = "send"
    /\ UNCHANGED <<inputVars, i, n, err, clock,
                   wpc, inp, res, cpc, cres, histVars>>

\* AddInput without m.wait.Add(1).
AddInput_noAdd ==
    /\ pc = "pump"
    /\ lines # <<>>
    /\ line' = <<Head(lines)>>
    /\ lines' = Tail(lines)
    /\ pc' = "send"
    /\ UNCHANGED <<inputVars, Stats, wait, i, n, err, clock,
                   wpc, inp, res, cpc, cres, histVars>>

\* for line := range lines { m.AddInput(line) }: m.wait.Add(1), then AddInput
\* blocks on m.input <- input.
AddInput ==
    /\ pc = "pump"
    /\ lines # <<>>
    /\ line' = <<Head(lines)>>
    /\ lines' = Tail(lines)
    /\ wait' = wait + 1
    /\ pc' = "send"
    /\ UNCHANGED <<inputVars, Stats, i, n, err, clock,
                   wpc, inp, res, cpc, cres, histVars>>

\* m.input <- input meets "for in := range m.input" of an idle consumer.
AddInput_send(w) ==
    /\ pc = "send"
    /\ wpc[w] = "recv"
    /\ inp' = [inp EXCEPT ![w] = line]
    /\ wpc' = [wpc EXCEPT ![w] = "exec"]
    /\ submitted' = Append(submitted, line[1].idx)
    /\ line' = <<>>
    /\ pc' = "pump"
    /\ UNCHANGED <<inputVars, Stats, wait, i, lines, n, err, clock,
                   res, cpc, cres, runCount, sent, handled, returned, updates>>

\* return nil
Start_return ==
    /\ pc = "pump"
    /\ lines = <<>>
    /\ err' = "nil"
    /\ pc' = "started"
    /\ UNCHANGED <<inputVars, Stats, wait, i, lines, n, line, clock,
                   wpc, inp, res, cpc, cres, histVars>>

\* ---------------------------------------------------------------- inputConsumer
\* atomic.AddUint64(&m.Stats.Execs, 1)
inputConsumer_exec(w) ==
    /\ wpc[w] = "exec"
    /\ Stats' = [Stats EXCEPT !.Execs = @ + 1]
    /\ wpc' = [wpc EXCEPT ![w] = "run"]
    /\ UNCHANGED <<inputVars, wait, mainVars, clock, inp, res, cpc, cres, histVars>>

\* The consumer going back to the head of its loop on a nil result, without
\* m.wait.Done().
inputConsumer_run_continue(w) ==
    /\ wpc[w] = "run"
    /\ res' = [res EXCEPT ![w] = run_handler(inp[w][1].text)]
    /\ runCount' = [runCount EXCEPT ![inp[w][1].idx] = @ + 1]
    /\ wpc' = [wpc EXCEPT ![w] = IF res'[w] # <<>> THEN "result" ELSE "recv"]
    /\ UNCHANGED <<inputVars, Stats, wait, mainVars, clock, inp, cpc, cres,
                   submitted, sent, handled, returned, updates>>

\* res := m.run_handler(in); if res != nil
inputConsumer_run(w) ==
    /\ wpc[w] = "run"
    /\ res' = [res EXCEPT ![w] = run_handler(inp[w][1].text)]
    /\ runCount' = [runCount EXCEPT ![inp[w][1].idx] = @ + 1]
    /\ wpc' = [wpc EXCEPT ![w] = IF res'[w] # <<>> THEN "result" ELSE "Done"]
    /\ UNCHANGED <<inputVars, Stats, wait, mainVars, clock, inp, cpc, cres,
                   submitted, sent, handled, returned, updates>>

\* m.Stats.Results++ without atomic: the increment is lost when another
\* consumer increments at the same time.
inputConsumer_result_racy(w) ==
    /\ wpc[w] = "result"
    /\ Stats' = [Stats EXCEPT !.Results =
                    IF \E v \in Workers \ {w} : wpc[v] = "result" THEN @ ELSE @ + 1]
    /\ wpc' = [wpc EXCEPT ![w] = "send"]
    /\ UNCHANGED <<inputVars, wait, mainVars, clock, inp, res, cpc, cres, histVars>>

\* The consumer counting a result without forwarding it to m.output.
inputConsumer_result_noSend(w) ==
    /\ wpc[w] = "result"
    /\ Stats' = [Stats EXCEPT !.Results = @ + 1]
    /\ wpc' = [wpc EXCEPT ![w] = "Done"]
    /\ UNCHANGED <<inputVars, wait, mainVars, clock, inp, res, cpc, cres, histVars>>

\* atomic.AddUint64(&m.Stats.Results, 1)
inputConsumer_result(w) ==
    /\ wpc[w] = "result"
    /\ Stats' = [Stats EXCEPT !.Results = @ + 1]
    /\ wpc' = [wpc EXCEPT ![w] = "send"]
    /\ UNCHANGED <<inputVars, wait, mainVars, clock, inp, res, cpc, cres, histVars>>

\* m.output <- res meets "for res := range m.output" of an idle collector.
inputConsumer_send(w, c) ==
    /\ wpc[w] = "send"
    /\ cpc[c] = "recv"
    /\ cres' = [cres EXCEPT ![c] = <<[idx |-> inp[w][1].idx, val |-> res[w][1]]>>]
    /\ cpc' = [cpc EXCEPT ![c] = "got"]
    /\ sent' = Append(sent, [idx |-> inp[w][1].idx, val |-> res[w][1]])
    /\ wpc' = [wpc EXCEPT ![w] = "Done"]
    /\ UNCHANGED <<inputVars, Stats, wait, mainVars, clock, inp, res,
                   runCount, submitted, handled, returned, updates>>

\* m.wait.Done(), and back to the head of the loop.
inputConsumer_Done(w) ==
    /\ wpc[w] = "Done"
    /\ wait' = wait - 1
    /\ inp' = [inp EXCEPT ![w] = <<>>]
    /\ res' = [res EXCEPT ![w] = <<>>]
    /\ wpc' = [wpc EXCEPT ![w] = "recv"]
    /\ UNCHANGED <<inputVars, Stats, mainVars, clock, cpc, cres, histVars>>

\* ---------------------------------------------------------------- outputConsumer
\* m.res_handler(res): the call.
outputConsumer_call(c) ==
    /\ cpc[c] = "got"
    /\ handled' = Append(handled, cres[c][1])
    /\ cpc' = [cpc EXCEPT ![c] = "handling"]
    /\ UNCHANGED <<inputVars, Stats, wait, mainVars, clock, wpc, inp, res, cres,
                   runCount, submitted, sent, returned, updates>>

\* m.res_handler(res) returns.
outputConsumer_return(c) ==
    /\ cpc[c] = "handling"
    /\ returned' = returned + 1
    /\ cres' = [cres EXCEPT ![c] = <<>>]
    /\ cpc' = [cpc EXCEPT ![c] = "recv"]
    /\ UNCHANGED <<inputVars, Stats, wait, mainVars, clock, wpc, inp, res,
                   runCount, submitted, sent, handled, updates>>

\* ---------------------------------------------------------------- Wait
\* Wait without m.wait.Wait().
Wait_noWait ==
    /\ pc = "started"
    /\ pc' = "UpdateStats"
    /\ UNCHANGED <<inputVars, Stats, wait, i, lines, n, line, err, clock,
                   wpc, inp, res, cpc, cres, histVars>>

\* m.wait.Wait() returns: the counter is zero.
Wait ==
    /\ pc = "started"
    /\ wait = 0
    /\ pc' = "UpdateStats"
    /\ UNCHANGED <<inputVars, Stats, wait, i, lines, n, line, err, clock,
                   wpc, inp, res, cpc, cres, histVars>>

\* m.UpdateStats(), and Wait returns.
UpdateStats ==
    /\ pc = "UpdateStats"
    /\ clock' \in {clock + d : d \in Ticks}
    /\ Stats' = [Stats EXCEPT
                    !.Stop = clock',
                    !.Total = clock' - Stats.Start,
                    !.Eps = FloatDiv(Stats.Execs, clock' - Stats.Start),
                    !.Progress = FloatDiv(Stats.Execs * 100, Stats.Inputs)]
    /\ updates' = updates + 1
    /\ pc' = "done"
    /\ UNCHANGED <<inputVars, wait, i, lines, n, line, err,
                   wpc, inp, res, cpc, cres, runCount, submitted, sent, handled, returned>>

Next ==
    \/ Start_goInputConsumer
    \/ Start_goOutputConsumer
    \/ Start_countOpen
    \/ Start_countOpenErr
    \/ Start_countLine
    \/ Start_reopen
    \/ Start_reopenErr
    \/ Start_skipLine
    \/ Start_skipEnd
    \/ AddInput
    \/ \E w \in Workers : AddInput_send(w)
    \/ Start_return
    \/ \E w \in Workers : inputConsumer_exec(w)
    \/ \E w \in Workers : inputConsumer_run(w)
    \/ \E w \in Workers : inputConsumer_result(w)
    \/ \E w \in Workers, c \in Collectors : inputConsumer_send(w, c)
    \/ \E w \in Workers : inputConsumer_Done(w)
    \/ \E c \in Collectors : outputConsumer_call(c)
    \/ \E c \in Collectors : outputConsumer_return(c)
    \/ Wait
    \/ UpdateStats

Spec == Init /\ [][Next]_vars

\* ---------------------------------------------------------------- scheduling
\* The steps of the orchestrator goroutine (the caller of Start, then Wait).
Orchestrator ==
    \/ Start_goInputConsumer
    \/ Start_goOutputConsumer
    \/ Start_countOpen
    \/ Start_countOpenErr
    \/ Start_countLine
    \/ Start_reopen
    \/ Start_reopenErr
    \/ Start_skipLine
    \/ Start_skipEnd
    \/ AddInput
    \/ \E w \in Workers : AddInput_send(w)
    \/ Start_return
    \/ Wait
    \/ UpdateStats

\* The steps of input consumer w.
inputConsumer(w) ==
    \/ AddInput_send(w)
    \/ inputConsumer_exec(w)
    \/ inputConsumer_run(w)
    \/ inputConsumer_result(w)
    \/ \E c \in Collectors : inputConsumer_send(w, c)
    \/ inputConsumer_Done(w)

\* The steps of output consumer c.
outputConsumer(c) ==
    \/ \E w \in Workers : inputConsumer_send(w, c)
    \/ outputConsumer_call(c)
    \/ outputConsumer_return(c)

\* The runs followed to their end: the wordlists that alternate "root" and
\* "admin", a fresh run and the runs resumed after one line and after more
\* lines than the longest wordlist has, one consumer and the largest
\* requested count.
FairInit ==
    /\ Init
    /\ \A k \in 1..Len(file) : file[k] = (IF k % 2 = 1 THEN "root" ELSE "admin")
    /\ session.Stats # <<>> =>
          /\ session.Stats[1].Execs \in {1, MaxLines + 1}
          /\ session.Stats[1].Inputs = 0
    /\ reqConsumers \in {1, MaxConsumers}

\* The run under the Go scheduler: a goroutine that can take a step is not
\* left waiting forever.  The handlers return and the caller of Start goes
\* on to call Wait.
FairSpec ==
    /\ FairInit
    /\ [][Next]_vars
    /\ WF_vars(Orchestrator)
    /\ \A w \in Workers : WF_vars(inputConsumer(w))
    /\ \A c \in Collectors : WF_vars(outputConsumer(c))


\* ================================================================ properties
\* The statistics the machine was constructed with.
Prior == NewMachine_stats(session)

L == Len(file)

\* The line numbers left after discarding the first k lines.
Remaining(k) == [j \in 1..(IF k <= L THEN L - k ELSE 0) |-> k + j]

\* The number of entries of the history q that are about line k.
CountIdx(q, k) == Cardinality({j \in 1..Len(q) : q[j].idx = k})

\* The number of times line k was handed over m.input.
CountSubmitted(k) == Cardinality({j \in 1..Len(submitted) : submitted[j] = k})

\* Start has returned successfully.
Started == pc \in {"started", "UpdateStats", "done"}

\* The input consumers that hold a job.
Busy == {w \in Workers : wpc[w] \in {"exec", "run", "result", "send", "Done"}}

\* The lines whose result handler call has returned.
HandlerReturned == {handled[j].idx : j \in 1..(IF returned <= Len(handled) THEN returned ELSE Len(handled))}

\* C1: on a fresh run over a non-empty wordlist, when Wait has returned
\* Stats.Execs equals Stats.Inputs and run_handler has been called exactly
\* once on every line of the source.
C1_FreshRunProcessesEveryLineOnce ==
    (pc = "done" /\ Prior.Execs = 0 /\ L > 0) =>
        /\ Stats.Execs = Stats.Inputs
        /\ Stats.Inputs = L
        /\ \A k \in 1..L : runCount[k] = 1

C1_Witness ==
    /\ pc = "done"
    /\ Prior.Execs = 0
    /\ L >= 2
    /\ consumers >= 2
    /\ Stats.Execs = L

\* C2: when Wait has returned, res_handler has been called and has returned
\* for every job whose run_handler result is not nil.
C2_HandlersReturnedBeforeWaitReturns ==
    pc = "done" =>
        \A k \in 1..L :
            (runCount[k] > 0 /\ run_handler(file[k]) # <<>>) => k \in HandlerReturned

\* C3: once the run has quiesced (the producer finished, every consumer and
\* the collector blocked on their channels), res_handler has been called
\* exactly once per job with a non-nil result, with that job's result, and
\* never for a job with a nil result.
Quiesced ==
    /\ pc \in {"started", "UpdateStats", "done", "failed"}
    /\ \A w \in Workers : wpc[w] \in {"off", "recv"}
    /\ \A c \in Collectors : cpc[c] \in {"off", "recv"}

C3_EveryResultHandledOnce ==
    Quiesced =>
        /\ \A k \in 1..L :
              CountIdx(handled, k) =
                  IF run_handler(file[k]) # <<>> THEN runCount[k] ELSE 0
        /\ \A k \in 1..L : runCount[k] = CountSubmitted(k) /\ runCount[k] <= 1
        /\ \A j \in 1..Len(handled) :
              <<handled[j].val>> = run_handler(file[handled[j].idx])
        /\ returned = Len(handled)

C3_Witness ==
    /\ Quiesced
    /\ consumers >= 2
    /\ Len(handled) >= 2
    /\ \E k \in 1..L : runCount[k] = 1 /\ run_handler(file[k]) = <<>>

\* C4: created from a prior snapshot with Execs = k <= number of lines, Start
\* discards exactly the first k lines and submits exactly the remaining lines
\* in source order, and after Wait has returned Stats.Execs = Stats.Inputs.
C4_ResumeSkipsExactlyPriorExecs ==
    (session.Stats # <<>> /\ session.Stats[1].Execs <= L) =>
        LET k == session.Stats[1].Execs IN
        /\ submitted = SubSeq(Remaining(k), 1, Len(submitted))
        /\ pc \in {"pump", "send"} => Len(submitted) + Len(line) + Len(lines) = L - k
        /\ Started => submitted = Remaining(k)
        /\ pc = "done" => Stats.Execs = Stats.Inputs /\ Stats.Inputs = L

C4_Witness ==
    /\ pc = "done"
    /\ session.Stats # <<>>
    /\ session.Stats[1].Execs = 1
    /\ L = 3
    /\ submitted = <<2, 3>>

\* C5: when opening the line source fails (at the counting pass or at the
\* second open), Start returns the error and has submitted nothing: the
\* completion counter is zero, no job was offered or handed over, neither
\* handler was called, and Execs and Results are what they were.
C5_OpenFailureSubmitsNothing ==
    err = "IOError" =>
        /\ pc = "failed"
        /\ wait = 0
        /\ line = <<>> /\ submitted = <<>>
        /\ \A k \in 1..L : runCount[k] = 0
        /\ sent = <<>> /\ handled = <<>> /\ returned = 0
        /\ Stats.Execs = Prior.Execs
        /\ Stats.Results = Prior.Results

C5_Witness ==
    /\ err = "IOError"
    /\ Prior.Execs > 0
    /\ \E w \in Workers : wpc[w] = "recv"

\* C6: the final Execs and Results are determined by the source, the prior
\* snapshot and the processing function alone: whatever the worker count and
\* the interleaving, a complete run ends with the same two counts.
FinalExecs == IF Prior.Execs <= L THEN L ELSE Prior.Execs

FinalResults ==
    Prior.Results +
    Cardinality({k \in 1..L : k > Prior.Execs /\ run_handler(file[k]) # <<>>})

C6_FinalCountsIndependentOfWorkers ==
    pc = "done" => Stats.Execs = FinalExecs /\ Stats.Results = FinalResults

C6_Witness ==
    /\ pc = "done"
    /\ consumers >= 2
    /\ Stats.Results >= Prior.Results + 2
    /\ Stats.Execs > Prior.Execs + 2

\* C7: at most one call of res_handler is in progress at any time, and the
\* results are handled in the order in which they were handed over m.output.
C7_ResultHandlerSerial ==
    /\ Cardinality({c \in Collectors : cpc[c] = "handling"}) <= 1
    /\ Len(handled) <= Len(sent)
    /\ handled = SubSeq(sent, 1, Len(handled))
    /\ returned <= Len(handled) /\ Len(handled) <= returned + 1

C7_Witness ==
    /\ \E c \in Collectors : cpc[c] = "handling"
    /\ \E w \in Workers : wpc[w] = "send"
    /\ Len(handled) >= 2

\* C8: Wait (called after Start returned) gets past m.wait.Wait() only with
\* the counter at zero; UpdateStats runs once, after every submitted job's
\* run_handler call has returned, and no consumer changes Execs or Results
\* from then on: the Execs that finalization read is the final one.
C8_FinalizationAfterAllJobs ==
    /\ pc \in {"UpdateStats", "done"} =>
          /\ wait = 0
          /\ Busy = {}
          /\ line = <<>>
          /\ \A j \in 1..Len(submitted) : runCount[submitted[j]] = 1
    /\ updates = (IF pc = "done" THEN 1 ELSE 0)
    /\ pc = "done" =>
          /\ Stats.Progress = FloatDiv(Stats.Execs * 100, Stats.Inputs)
          /\ Stats.Eps = FloatDiv(Stats.Execs, Stats.Total)
          /\ Stats.Execs = Prior.Execs + Len(submitted)

C8_Witness ==
    /\ pc = "done"
    /\ consumers >= 2
    /\ Len(submitted) >= 2
    /\ \E c \in Collectors : cpc[c] = "handling"

\* C9: Start launches twice the number of CPUs as input consumers when the
\* requested count is <= 0 and exactly the requested count otherwise, at
\* least one in every case, and exactly one output consumer.
C9_WorkerCount ==
    /\ consumers >= 1
    /\ reqConsumers <= 0 => consumers = 2 * numCPU
    /\ reqConsumers > 0 => consumers = reqConsumers
    /\ pc = "Start" =>
          /\ Cardinality({w \in Workers : wpc[w] # "off"}) = i
          /\ \A c \in Collectors : cpc[c] = "off"
    /\ pc # "Start" =>
          /\ Cardinality({w \in Workers : wpc[w] # "off"}) = consumers
          /\ Cardinality({c \in Collectors : cpc[c] # "off"}) = 1

C9_Witness ==
    /\ reqConsumers = 0
    /\ pc = "count_open"
    /\ Cardinality({w \in Workers : wpc[w] = "recv"}) = 2 * numCPU

\* C10: the completion counter is at least the number of jobs offered to
\* m.input or held by a consumer and not yet completed; it is not zero while
\* such a job exists, and it is never negative.
C10_CounterCoversJobsInFlight ==
    /\ wait >= Len(line) + Cardinality(Busy)
    /\ (line # <<>> \/ Busy # {}) => wait > 0
    /\ wait >= 0

C10_Witness ==
    /\ line # <<>>
    /\ Cardinality(Busy) >= 2
    /\ wait = 3

\* C12: backpressure.  At most N jobs are held by consumers, the completion
\* counter is at most N + 1, and at most N results wait for the collector.
C12_Backpressure ==
    /\ Cardinality(Busy) <= consumers
    /\ \A w \in Workers : Len(inp[w]) <= 1 /\ (w \in Busy <=> inp[w] # <<>>)
    /\ wait <= consumers + 1
    /\ wait = Len(line) + Cardinality(Busy)
    /\ Cardinality({w \in Workers : wpc[w] = "send"}) <= consumers

C12_Witness ==
    /\ consumers >= 2
    /\ Cardinality(Busy) = consumers
    /\ wait = consumers + 1
    /\ \A w \in Busy : wpc[w] = "send"

\* C13: the jobs handed over m.input are, in hand-off order, the source lines
\* left after the resume skip, none repeated or reordered; with one consumer
\* the results are handled in that order too (with two or more they need not
\* be: C13_Witness).
C13_SubmissionInSourceOrder ==
    /\ submitted = SubSeq(Remaining(Prior.Execs), 1, Len(submitted))
    /\ Started => submitted = Remaining(Prior.Execs)
    /\ consumers = 1 =>
          \A a, b \in 1..Len(handled) : a < b => handled[a].idx < handled[b].idx

C13_Witness ==
    /\ consumers >= 2
    /\ Len(submitted) >= 2
    /\ \E a, b \in 1..Len(handled) : a < b /\ handled[a].idx > handled[b].idx

\* Normal operation: a fresh run, or a run resumed from a snapshot that itself
\* has Execs <= Inputs and whose Execs does not exceed the lines of the source.
NormalOperation == Prior.Execs <= L /\ Prior.Execs <= Prior.Inputs

\* Start is past the counting pass and its second open.
Counted == pc \in {"skip", "pump", "send", "started", "UpdateStats", "done"}

\* C14 as claimed: under normal operation Stats.Execs <= Stats.Inputs in every
\* state, the counting pass included.
C14_ExecsAtMostInputsAlways == NormalOperation => Stats.Execs <= Stats.Inputs

\* C14 as amended: under normal operation Stats.Execs <= Stats.Inputs in every
\* state of a fresh run, and in a resumed run in every state before Start
\* resets Inputs and from the successful second open on.
C14_ExecsAtMostInputsOutsideCounting ==
    (NormalOperation /\ (Prior.Execs = 0 \/ pc = "Start" \/ Counted)) =>
        Stats.Execs <= Stats.Inputs

C14_Witness ==
    /\ NormalOperation
    /\ Prior.Execs = 2
    /\ pc = "done"
    /\ Stats.Execs = 3
    /\ Stats.Inputs = 3

\* C15: when the prior Execs k exceeds the lines of the source, Start skips
\* the whole input, submits nothing, returns nil when both opens succeed and
\* leaves Stats.Execs = k; the skip counter stays positive.
C15_MalformedResumeIsNoOp ==
    /\ n >= 0
    /\ Prior.Execs > L =>
          /\ submitted = <<>> /\ line = <<>> /\ wait = 0
          /\ \A k \in 1..L : runCount[k] = 0
          /\ Stats.Execs = Prior.Execs
          /\ pc = "pump" => lines = <<>>
          /\ Counted /\ pc # "skip" => n = Prior.Execs - L
          /\ Started => err = "nil"

C15_Witness ==
    /\ Prior.Execs > L
    /\ L >= 2
    /\ pc = "done"
    /\ err = "nil"

\* The fields of the machine that only the orchestrator writes.
OrchestratorFields ==
    <<Stats.Start, Stats.Stop, Stats.Total, Stats.Inputs, Stats.Eps, Stats.Progress, consumers>>

\* Every launched goroutine is blocked on its channel and no job was offered.
Parked ==
    /\ \A w \in Workers : wpc[w] \in {"off", "recv"}
    /\ \A c \in Collectors : cpc[c] \in {"off", "recv"}
    /\ line = <<>> /\ submitted = <<>> /\ wait = 0

\* C16 as claimed: the counting pass and the write of Stats.Start come before
\* any input consumer or the output consumer is started.
C16_CountingBeforeGoroutines ==
    pc \in {"count_open", "count"} =>
        /\ \A w \in Workers : wpc[w] = "off"
        /\ \A c \in Collectors : cpc[c] = "off"

\* C16 as amended: the fields other than Execs and Results are written by the
\* orchestrator only, either in Start's counting pass and second open, when
\* the consumers and the collector are already started but all parked and no
\* job was offered, or in UpdateStats, when the counter is zero and no
\* consumer holds a job.
C16_OrchestratorWritesWhileParked ==
    [][OrchestratorFields' # OrchestratorFields =>
          \/ /\ pc \in {"count_open", "count"}
             /\ Parked
             /\ Cardinality({w \in Workers : wpc[w] = "recv"}) = consumers
             /\ \E c \in Collectors : cpc[c] = "recv"
          \/ /\ pc = "UpdateStats"
             /\ wait = 0 /\ Busy = {} /\ line = <<>>]_vars

C16_Witness ==
    /\ pc = "count"
    /\ Stats.Inputs >= 1
    /\ consumers >= 2
    /\ Cardinality({w \in Workers : wpc[w] = "recv"}) = consumers
    /\ \E c \in Collectors : cpc[c] = "recv"

\* C17: with an empty source (Stats.Inputs = 0) finalization gives
\* Stats.Progress a defined value, not the result of a division by zero.
C17_ProgressDefinedOnEmptyInput ==
    (pc = "done" /\ Stats.Inputs = 0) => Stats.Progress.kind = "fin"

\* C18: the counting pass sets Stats.Inputs to the number of lines of the
\* source whatever the prior snapshot carried, and the second reading of the
\* source delivers that many lines again.
C18_InputsIsLineCount ==
    /\ pc = "count" => Stats.Inputs + Len(lines) = L
    /\ Counted => Stats.Inputs = L
    /\ pc \in {"skip", "pump", "send"} =>
          Len(lines) + Len(line) + Len(submitted) + (Prior.Execs - n) = Stats.Inputs
    /\ Started /\ Prior.Execs <= L => Prior.Execs + Len(submitted) = Stats.Inputs

C18_Witness ==
    /\ pc = "started"
    /\ Prior.Inputs = 5
    /\ L = 2
    /\ Stats.Inputs = 2

\* C19: no goroutine ever terminates, and once Wait is past m.wait.Wait()
\* every one of the N input consumers is parked on m.input and stays there:
\* run_handler is never called again.
C19_ConsumersParkedForever ==
    /\ [](pc \in {"UpdateStats", "done"} =>
            /\ Cardinality({w \in Workers : wpc[w] = "recv"}) = consumers
            /\ \A w \in Workers : wpc[w] \in {"off", "recv"})
    /\ [][/\ \A w \in Workers : wpc[w] # "off" => wpc'[w] # "off"
          /\ \A c \in Collectors : cpc[c] # "off" => cpc'[c] # "off"
          /\ pc \in {"UpdateStats", "done"} =>
                wpc' = wpc /\ runCount' = runCount /\ submitted' = submitted]_vars

C19_Witness ==
    /\ pc = "done"
    /\ consumers >= 2
    /\ Len(submitted) >= 2
    /\ \E c \in Collectors : cpc[c] = "handling"
    /\ \A w \in Workers : wpc[w] = "recv"

\* C20: when Wait has returned every non-nil result has been handed to the
\* collector and at most one res_handler call is not finished (not started
\* or in progress); the calls for all earlier results have returned.
C20_AtMostOneHandlerUnfinished ==
    pc \in {"UpdateStats", "done"} =>
        /\ \A k \in 1..L :
              (runCount[k] > 0 /\ run_handler(file[k]) # <<>>) => CountIdx(sent, k) = 1
        /\ Len(sent) <= returned + 1
        /\ \A j \in 1..(Len(sent) - 1) : sent[j].idx \in HandlerReturned

C20_Witness ==
    /\ pc = "done"
    /\ Len(sent) >= 2
    /\ Len(handled) = Len(sent) - 1
    /\ returned = Len(sent) - 1

\* C11: under fair scheduling Start returns, the producer blocked on m.input
\* gets its job accepted, a consumer blocked on m.output gets its result
\* accepted, and a Wait called after a successful Start returns.
C11_PipelineTerminates ==
    /\ <>(err # "none")
    /\ (pc = "send") ~> (pc = "pump")
    /\ \A w \in Workers : (wpc[w] = "send") ~> (wpc[w] = "Done")
    /\ (pc = "started") ~> (pc = "done")
    /\ <>[](pc \in {"done", "failed"} /\ Quiesced)

C11_Witness ==
    /\ pc = "done"
    /\ Quiesced
    /\ consumers = 1
    /\ L >= 3
    /\ returned >= 2

=============================================================================
